---- MODULE Spec2Model ----
(***************************************************************************)
(* QuantumParticleInteractionSim: the batch gravity engine of server.js    *)
(* (POST /simulate and simulate) and the real-time Coulomb sketch of       *)
(* quantum_sim.js (setup, draw, Particle, windowResized).                  *)
(*                                                                         *)
(* One run of the model is one run of one of the two programs: Init picks  *)
(* `prog`, and the other program's variables stay at their idle values.    *)
(*                                                                         *)
(* Numbers.  A JavaScript Number is modelled as a record                   *)
(*     [k |-> "fin" | "nan" | "inf", s |-> 1 | -1, m |-> magnitude]        *)
(* A finite value is sign and magnitude in decimal fixed point: m is the   *)
(* magnitude times Base^FracLimbs, written as limbs in base Base, least    *)
(* significant limb first, without leading zero limbs.  Addition and       *)
(* subtraction are exact; a product, a quotient and a square root are      *)
(* truncated toward zero at Base^-FracLimbs (IEEE rounds to nearest at 53  *)
(* bits; both round a value and its negation alike).  Zero has one sign,   *)
(* and there is no overflow to Infinity.  0/0 is NaN, x/0 is +-Infinity,   *)
(* and NaN propagates, as in IEEE arithmetic.                              *)
(***************************************************************************)
EXTENDS Integers, Sequences, FiniteSets, TLC

\* ------------------------------------------------------------------ bounds
\* Limbs after the decimal point: the resolution is Base^-FracLimbs.
FracLimbs == 3
\* Longest body array of a POST /simulate payload.
MaxBodies == 2
\* Largest `steps` of a payload.
MaxSteps == 2
\* Most particles setup() creates (NUM_PARTICLES, 20 in the source).
MaxParticles == 2
\* Frames drawn in one run of the sketch.
MaxFrames == 2

Base == 10^4

\* ------------------------------------------------------ magnitudes (limbs)
\* The limb operations are written without recursion over the limbs where a
\* closed form exists (carries by look-ahead), so that one arithmetic
\* operation nests only a few operator applications.

Max(x, y) == IF x >= y THEN x ELSE y
Min(x, y) == IF x <= y THEN x ELSE y

\* The function f on 1..n as the tuple <<f[1], ..., f[n]>>.
AsSeq(f) == f \o <<>>

Limb(m, i) == IF i >= 1 /\ i <= Len(m) THEN m[i] ELSE 0

\* m without its leading (most significant) zero limbs
MNorm(m) ==
  SubSeq(m, 1, Cardinality({k \in 1..Len(m) : \E j \in k..Len(m) : m[j] # 0}))

\* -1, 0, 1 as a < b, a = b, a > b: decided at the highest limb that differs
MCmp(a, b) ==
  LET n == Max(Len(a), Len(b))
      d == {k \in 1..n : /\ Limb(a, k) # Limb(b, k)
                         /\ \A j \in (k + 1)..n : Limb(a, j) = Limb(b, j)}
  IN IF d = {} THEN 0
     ELSE IF \E k \in d : Limb(a, k) < Limb(b, k) THEN -1 ELSE 1

\* a + b: limb i receives a carry when a lower limb j overflows and every
\* limb between j and i is Base - 1.
MAdd(a, b) ==
  LET n == Max(Len(a), Len(b)) + 1
      s == AsSeq([i \in 1..n |-> Limb(a, i) + Limb(b, i)])
      carry(i) == IF \E j \in 1..(i - 1) :
                        s[j] >= Base /\ \A k \in (j + 1)..(i - 1) : s[k] = Base - 1
                  THEN 1 ELSE 0
  IN MNorm(AsSeq([i \in 1..n |-> (s[i] + carry(i)) % Base]))

\* a - b for a >= b: limb i lends when a lower limb j is negative and every
\* limb between j and i is zero.
MSub(a, b) ==
  LET n == Len(a)
      d == AsSeq([i \in 1..n |-> a[i] - Limb(b, i)])
      borrow(i) == IF \E j \in 1..(i - 1) :
                         d[j] < 0 /\ \A k \in (j + 1)..(i - 1) : d[k] = 0
                   THEN 1 ELSE 0
  IN MNorm(AsSeq([i \in 1..n |-> (d[i] - borrow(i) + Base) % Base]))

\* a * d for a limb d: the low halves of the limb products plus their high
\* halves one limb up
MMulSmall(a, d) ==
  LET p == AsSeq([i \in 1..Len(a) |-> a[i] * d])
  IN MAdd(AsSeq([i \in 1..Len(a) |-> p[i] % Base]),
          <<0>> \o AsSeq([i \in 1..Len(a) |-> p[i] \div Base]))

\* a * Base^k and a \div Base^k
MShl(a, k) == IF a = <<>> THEN a ELSE AsSeq([i \in 1..k |-> 0]) \o a
MShr(a, k) == IF Len(a) <= k THEN <<>> ELSE SubSeq(a, k + 1, Len(a))

\* The sum of a[i] * b[k + 1 - i] for i in lo..hi
RECURSIVE Dot(_, _, _, _, _)
Dot(a, b, k, lo, hi) ==
  IF lo > hi THEN 0
  ELSE IF lo = hi THEN a[lo] * b[k + 1 - lo]
  ELSE LET mid == (lo + hi) \div 2
       IN Dot(a, b, k, lo, mid) + Dot(a, b, k, mid + 1, hi)

\* a * b: the column sums of the limb products, split into three limbs each
MMul(a, b) ==
  IF a = <<>> \/ b = <<>> THEN <<>>
  ELSE LET n == Len(a) + Len(b) - 1
           c == AsSeq([k \in 1..n |->
                         Dot(a, b, k, Max(1, k + 1 - Len(b)), Min(k, Len(a)))])
       IN MAdd(MAdd(AsSeq([k \in 1..n |-> c[k] % Base]),
                    <<0>> \o AsSeq([k \in 1..n |-> (c[k] \div Base) % Base])),
               <<0, 0>> \o AsSeq([k \in 1..n |-> c[k] \div (Base * Base)]))

RECURSIVE IntToLimbs(_)
IntToLimbs(n) == IF n = 0 THEN <<>> ELSE <<n % Base>> \o IntToLimbs(n \div Base)

\* The quotient digit: the estimate q lowered until q * b <= r.
RECURSIVE QFix(_, _, _)
QFix(r, b, q) ==
  IF MCmp(MMulSmall(b, q), r) <= 0 THEN q ELSE QFix(r, b, q - 1)

\* The digit's estimate from the two leading limbs of r and the leading limb
\* of b; with b's leading limb at least Base \div 2 it is at most 2 too large.
QEst(r, b) ==
  LET n == Len(b)
      e == (Limb(r, n + 1) * Base + Limb(r, n)) \div b[n]
  IN IF e > Base - 1 THEN Base - 1 ELSE e

\* Long division, most significant limb first: the quotient's limbs i..1,
\* most significant first, r being what is left of a's limbs above i; b's
\* leading limb is at least Base \div 2.
RECURSIVE MDivFrom(_, _, _, _)
MDivFrom(a, b, i, r) ==
  IF i = 0 THEN <<>>
  ELSE LET r1 == MNorm(<<a[i]>> \o r)
           d  == IF MCmp(r1, b) < 0 THEN 0 ELSE QFix(r1, b, QEst(r1, b))
       IN <<d>> \o MDivFrom(a, b, i - 1, MSub(r1, MMulSmall(b, d)))

Reverse(s) == AsSeq([i \in 1..Len(s) |-> s[Len(s) + 1 - i]])

\* The quotient a \div b, b > 0: both are scaled so that b's leading limb is
\* at least Base \div 2, which leaves the quotient as it is.
MDiv(a, b) ==
  LET f  == Base \div (b[Len(b)] + 1)
      a1 == MMulSmall(a, f)
      b1 == MMulSmall(b, f)
      i  == Len(a1) - Len(b1) + 1
  IN IF i < 1 THEN <<>>
     ELSE MNorm(Reverse(MDivFrom(a1, b1, i, SubSeq(a1, i + 1, Len(a1)))))

\* a \div 2
MHalf(a) ==
  MNorm(AsSeq([i \in 1..Len(a) |-> (a[i] + Base * (Limb(a, i + 1) % 2)) \div 2]))

\* The least s in lo..hi with s * s >= t (hi * hi >= t is given).
RECURSIVE CeilSqrt(_, _, _)
CeilSqrt(t, lo, hi) ==
  IF lo = hi THEN lo
  ELSE LET mid == (lo + hi) \div 2
       IN IF mid * mid >= t THEN CeilSqrt(t, lo, mid) ELSE CeilSqrt(t, mid + 1, hi)

\* Newton's iteration from x >= sqrt(a), down to the integer square root.
RECURSIVE NewtonSqrt(_, _)
NewtonSqrt(a, x) ==
  LET y == MHalf(MAdd(x, MDiv(a, x)))
  IN IF MCmp(y, x) >= 0 THEN x ELSE NewtonSqrt(a, y)

\* The integer square root of a > 0, from a first value above it taken from
\* a's two leading limbs.
MSqrt(a) ==
  LET n    == Len(a)
      lead == Limb(a, n) * Base + Limb(a, n - 1)
      root == CeilSqrt(lead + 1, 1, Base)
      x0   == IF n = 1 THEN <<CeilSqrt(a[1], 1, Base)>>
              ELSE IF n % 2 = 0 THEN MShl(IntToLimbs(root), (n - 2) \div 2)
              ELSE MShl(IntToLimbs(root * 100), (n - 3) \div 2)
  IN IF Len(x0) = 0 THEN <<>> ELSE NewtonSqrt(a, x0)

\* ------------------------------------------------------------- Numbers
NaN == [k |-> "nan", s |-> 1, m |-> <<>>]
Inf(s) == [k |-> "inf", s |-> s, m |-> <<>>]
Fin(s, m) == [k |-> "fin", s |-> IF m = <<>> THEN 1 ELSE s, m |-> m]
Zero == Fin(1, <<>>)

\* The Number of an integer literal.
Num(n) ==
  IF n < 0 THEN Fin(-1, MShl(IntToLimbs(-n), FracLimbs))
  ELSE Fin(1, MShl(IntToLimbs(n), FracLimbs))

IsNaN(a) == a.k = "nan"
IsFinite(a) == a.k = "fin"
IsZero(a) == a.k = "fin" /\ a.m = <<>>

\* unary minus
NNeg(a) == IF a.k = "nan" THEN NaN ELSE IF a.k = "inf" THEN Inf(-a.s) ELSE Fin(-a.s, a.m)

\* a + b
NAdd(a, b) ==
  IF a.k = "nan" \/ b.k = "nan" THEN NaN
  ELSE IF a.k = "inf" THEN (IF b.k = "inf" /\ b.s # a.s THEN NaN ELSE a)
  ELSE IF b.k = "inf" THEN b
  ELSE IF a.s = b.s THEN Fin(a.s, MAdd(a.m, b.m))
  ELSE IF MCmp(a.m, b.m) >= 0 THEN Fin(a.s, MSub(a.m, b.m))
  ELSE Fin(b.s, MSub(b.m, a.m))

\* a - b
NSub(a, b) == NAdd(a, NNeg(b))

\* a * b
NMul(a, b) ==
  IF a.k = "nan" \/ b.k = "nan" THEN NaN
  ELSE IF a.k = "inf" \/ b.k = "inf"
       THEN (IF IsZero(a) \/ IsZero(b) THEN NaN ELSE Inf(a.s * b.s))
  ELSE Fin(a.s * b.s, MShr(MMul(a.m, b.m), FracLimbs))

\* a / b
NDiv(a, b) ==
  IF a.k = "nan" \/ b.k = "nan" THEN NaN
  ELSE IF a.k = "inf" THEN (IF b.k = "inf" THEN NaN ELSE Inf(a.s * b.s))
  ELSE IF b.k = "inf" THEN Zero
  ELSE IF b.m = <<>> THEN (IF a.m = <<>> THEN NaN ELSE Inf(a.s))
  ELSE Fin(a.s * b.s, MDiv(MShl(a.m, FracLimbs), b.m))

\* Math.sqrt(a)
NSqrt(a) ==
  IF a.k = "nan" THEN NaN
  ELSE IF a.m = <<>> /\ a.k = "fin" THEN Zero
  ELSE IF a.s = -1 THEN NaN
  ELSE IF a.k = "inf" THEN a
  ELSE Fin(1, MSqrt(MShl(a.m, FracLimbs)))

\* a < b; false when either is NaN
NLt(a, b) ==
  IF a.k = "nan" \/ b.k = "nan" THEN FALSE
  ELSE IF a.k = "inf" THEN a.s = -1 /\ ~(b.k = "inf" /\ b.s = -1)
  ELSE IF b.k = "inf" THEN b.s = 1
  ELSE IF a.s # b.s THEN a.s < b.s
  ELSE IF a.s = 1 THEN MCmp(a.m, b.m) < 0
  ELSE MCmp(a.m, b.m) > 0

NGt(a, b) == NLt(b, a)
NLe(a, b) == NLt(a, b) \/ (a.k # "nan" /\ a = b)

\* Math.max and Math.min: NaN when either argument is NaN
NMax(a, b) == IF a.k = "nan" \/ b.k = "nan" THEN NaN ELSE IF NLt(a, b) THEN b ELSE a
NMin(a, b) == IF a.k = "nan" \/ b.k = "nan" THEN NaN ELSE IF NLt(b, a) THEN b ELSE a

\* The value of a payload field that is absent (typeof is not 'number').
Undefined == [k |-> "undefined", s |-> 1, m |-> <<>>]
\* What JSON.stringify writes for NaN and the infinities.
JsonNull == [k |-> "null", s |-> 1, m |-> <<>>]

Vec(x, y) == [x |-> x, y |-> y]

VAdd(a, b) == Vec(NAdd(a.x, b.x), NAdd(a.y, b.y))
VSub(a, b) == Vec(NSub(a.x, b.x), NSub(a.y, b.y))
VScale(a, n) == Vec(NMul(a.x, n), NMul(a.y, n))
ZeroVec == Vec(Zero, Zero)

VARIABLES
  prog,         \* "server" or "sketch": the program this run is of
  \* ---- server.js
  request,      \* the POST /simulate body: [ok, bodies, dt, steps, jitter]
  heap,         \* the objects JSON.parse and simulate create, by reference
  bodies,       \* simulate's argument: references to the caller's objects
  state,        \* simulate's internal copy: references
  dt, steps, jitter,   \* simulate's parameters
  forces,       \* the accumulators of the step in progress
  trajectories, \* the snapshots recorded so far
  step,         \* the loop counter
  pc,           \* "end" (request read), "loop", "done"; "idle" in the sketch
  response,     \* [status, positions]
  rng,          \* the state of Math.random's generator
  prev,         \* history: the bodies as they were before the last step
  visited,      \* history: the pairs the last accumulation visited, in order
  \* ---- quantum_sim.js
  particles,    \* the global array of Particle objects
  width, height,     \* the canvas extent
  deltaTime,    \* p5's milliseconds since the previous frame
  frameCount,   \* frames drawn
  op,           \* the last operation: "setup", "draw", "resize"
  pre           \* history: the particles as they were before the last draw

serverVars == <<request, heap, bodies, state, dt, steps, jitter, forces,
                trajectories, step, pc, response, rng, prev>>
sketchVars == <<particles, width, height, deltaTime, frameCount, op, pre>>
vars == <<prog, serverVars, sketchVars, visited>>

\* The pairs (i, j), i < j, in the order the nested loops of both programs
\* reach them.
RECURSIVE PairsFrom(_, _, _)
PairsFrom(i, j, n) ==
  IF i > n THEN <<>>
  ELSE IF j > n THEN PairsFrom(i + 1, i + 2, n)
  ELSE <<<<i, j>>>> \o PairsFrom(i, j + 1, n)

PairSeq(n) == PairsFrom(1, 2, n)

\* ------------------------------------------------------------ server.js
\* const G = 1.0
G == Num(1)
\* 1e-8, without the softening (a variant of Softening)
NoSoftening == Zero
\* 1e-8, the term added to the squared distance
Softening == NDiv(Num(1), Num(10^8))
\* the handler's defaults for dt (0.1) and jitter (0.0)
DefaultDt == NDiv(Num(1), Num(10))
DefaultJitter == Zero

Body(mass, x, y, vx, vy) ==
  [mass |-> Num(mass), x |-> Num(x), y |-> Num(y), vx |-> Num(vx), vy |-> Num(vy)]

\* The force on body bi from body bj (lines 56-63).
GravityForce(bi, bj) ==
  LET dx == NSub(bj.x, bi.x)
      dy == NSub(bj.y, bi.y)
      distSq == NAdd(NAdd(NMul(dx, dx), NMul(dy, dy)), Softening)
      dist == NSqrt(distSq)
      forceMag == NDiv(NMul(NMul(G, bi.mass), bj.mass), distSq)
  IN Vec(NMul(forceMag, NDiv(dx, dist)), NMul(forceMag, NDiv(dy, dist)))

\* forces[i] += f; forces[j] -= f
ApplyPair(f, i, j, g) ==
  LET fi == f[i]
      fj == f[j]
  IN [f EXCEPT ![i] = VAdd(fi, g), ![j] = VSub(fj, g)]

RECURSIVE ZeroVecs(_)
ZeroVecs(n) == IF n = 0 THEN <<>> ELSE Append(ZeroVecs(n - 1), ZeroVec)

\* The accumulators kept from the step before (a variant of ZeroForces)
KeepForces(st, old) == IF Len(old) = Len(st) THEN old ELSE ZeroVecs(Len(st))
\* state.map(() => ({x: 0, y: 0})): the accumulators a step starts from; old
\* are those of the step before, which the loop body's const leaves behind.
ZeroForces(st, old) == ZeroVecs(Len(st))

\* The pairwise loop over the bodies st (values), from pair k on.
RECURSIVE AccumulateFrom(_, _, _, _)
AccumulateFrom(st, pairs, k, f) ==
  IF k > Len(pairs) THEN f
  ELSE AccumulateFrom(st, pairs, k + 1,
         ApplyPair(f, pairs[k][1], pairs[k][2],
                   GravityForce(st[pairs[k][1]], st[pairs[k][2]])))

\* Math.random: a generator whose seed the program does not choose.
RngMod == 2^3
RngNext(s) == (5 * s + 3) % RngMod
RECURSIVE RngAfter(_, _)
RngAfter(s, k) == IF k = 0 THEN s ELSE RngAfter(RngNext(s), k - 1)
Random(s) == NDiv(Num(s), Num(RngMod))
Half == NDiv(Num(1), Num(2))

\* The update without the time step in the position (a variant of Integrate)
IntegrateNoDt(b, f, h, jit, r1, r2) ==
  LET vx == NAdd(b.vx, NMul(NDiv(f.x, b.mass), h))
      vy == NAdd(b.vy, NMul(NDiv(f.y, b.mass), h))
  IN [mass |-> b.mass, vx |-> vx, vy |-> vy,
      x |-> NAdd(b.x, NAdd(vx, NMul(NSub(r1, Half), jit))),
      y |-> NAdd(b.y, NAdd(vy, NMul(NSub(r2, Half), jit)))]

\* One body's velocity and position update (lines 72-77); r1 and r2 are the
\* two values Math.random returns.
Integrate(b, f, h, jit, r1, r2) ==
  LET ax == NDiv(f.x, b.mass)
      ay == NDiv(f.y, b.mass)
      vx == NAdd(b.vx, NMul(ax, h))
      vy == NAdd(b.vy, NMul(ay, h))
  IN [mass |-> b.mass, vx |-> vx, vy |-> vy,
      x |-> NAdd(b.x, NAdd(NMul(vx, h), NMul(NSub(r1, Half), jit))),
      y |-> NAdd(b.y, NAdd(NMul(vy, h), NMul(NSub(r2, Half), jit)))]

\* The update loop over the bodies st, from body i on; s is the generator's
\* state.
RECURSIVE UpdateFrom(_, _, _, _, _, _)
UpdateFrom(st, f, h, jit, i, s) ==
  IF i > Len(st) THEN <<>>
  ELSE <<Integrate(st[i], f[i], h, jit, Random(s), Random(RngNext(s)))>>
       \o UpdateFrom(st, f, h, jit, i + 1, RngNext(RngNext(s)))

\* state.map(b => ({x: b.x, y: b.y}))
Snapshot(st) == AsSeq([i \in 1..Len(st) |-> Vec(st[i].x, st[i].y)])

\* The snapshot taken before the update (a variant of Record)
RecordBefore(traj, before, after) == Append(traj, Snapshot(before))
\* trajectories.push(state.map(...)), after the update loop (line 80)
Record(traj, before, after) == Append(traj, Snapshot(after))

\* The objects the references refs name.
Deref(h, refs) == AsSeq([i \in 1..Len(refs) |-> h[refs[i]]])

\* The heap h with one new object for each value of vals.
Alloc(h, vals) == h \o vals

\* state[i].vx += ..., state[i].x += ...: the objects refs name become vals.
Write(h, refs, vals) ==
  AsSeq([r \in 1..Len(h) |->
           IF \E i \in 1..Len(refs) : refs[i] = r
           THEN vals[CHOOSE i \in 1..Len(refs) : refs[i] = r]
           ELSE h[r]])

\* No copy: the caller's objects themselves (a variant of CopyBodies)
AliasBodies(h, refs) == [heap |-> h, refs |-> refs]
\* bodies.map(b => ({mass: b.mass, ...})): one new object for each body,
\* after the objects the heap holds, and the references to them.
CopyBodies(h, refs) ==
  [heap |-> Alloc(h, Deref(h, refs)),
   refs |-> AsSeq([i \in 1..Len(refs) |-> Len(h) + i])]

\* JSON.stringify of a Number, and of the trajectory
JsonNumber(a) == IF a.k = "fin" THEN a ELSE JsonNull
Stringify(traj) ==
  AsSeq([k \in 1..Len(traj) |->
     AsSeq([i \in 1..Len(traj[k]) |->
        Vec(JsonNumber(traj[k][i].x), JsonNumber(traj[k][i].y))])])

\* typeof v === 'number'
IsNumber(a) == a.k # "undefined"

\* The payloads: arrays of bodies from a pool (two unit masses at rest ten
\* apart, a body of mass zero, a moving body), dt and jitter given or absent.
\* steps is always given: the default of 100 is above MaxSteps.
Pool == { Body(1, 0, 0, 0, 0), Body(1, 10, 0, 0, 0),
          Body(0, 3, 4, 0, 0), Body(2, 3, 4, 1, -2) }
BodyArrays == UNION { [1..n -> Pool] : n \in 0..MaxBodies }
DtSet == { Undefined, Num(1) }
JitterSet == { Undefined, Num(1) }
SeedSet == { 0, 6 }
Malformed == [ok |-> FALSE, bodies |-> <<>>, dt |-> Undefined, steps |-> 0,
              jitter |-> Undefined]
Requests ==
  { Malformed } \cup
  { [ok |-> TRUE, bodies |-> bs, dt |-> d, steps |-> n, jitter |-> j] :
      bs \in BodyArrays, d \in DtSet, n \in 0..MaxSteps, j \in JitterSet }

NoResponse == [status |-> 0, positions |-> <<>>]

ServerIdle ==
  /\ request = Malformed /\ heap = <<>> /\ bodies = <<>> /\ state = <<>>
  /\ dt = Zero /\ steps = 0 /\ jitter = Zero /\ forces = <<>>
  /\ trajectories = <<>> /\ step = 0 /\ pc = "idle" /\ response = NoResponse
  /\ rng = 0 /\ prev = <<>>

\* The request has arrived; the generator's state matters to a run only when
\* the payload gives a jitter.
ServerInit ==
  /\ request \in Requests
  /\ rng \in (IF IsNumber(request.jitter) THEN SeedSet ELSE {0})
  /\ heap = <<>> /\ bodies = <<>> /\ state = <<>>
  /\ dt = Zero /\ steps = 0 /\ jitter = Zero /\ forces = <<>>
  /\ trajectories = <<>> /\ step = 0 /\ pc = "end" /\ response = NoResponse
  /\ prev = <<>>

\* req.on('end'): JSON.parse throws, and the catch answers 400 (lines 133-137).
ParseError ==
  /\ prog = "server" /\ pc = "end" /\ ~request.ok
  /\ response' = [status |-> 400, positions |-> <<>>]
  /\ pc' = "done"
  /\ UNCHANGED <<prog, request, heap, bodies, state, dt, steps, jitter, forces,
                 trajectories, step, rng, prev, visited, sketchVars>>

\* req.on('end'), lines 124-129, and simulate's entry, lines 41-50.
ParseAndCall ==
  /\ prog = "server" /\ pc = "end" /\ request.ok
  /\ LET parsed == Alloc(<<>>, request.bodies)
         refs == AsSeq([i \in 1..Len(parsed) |-> i])
         copy == CopyBodies(parsed, refs)
     IN /\ bodies' = refs
        /\ state' = copy.refs
        /\ heap' = copy.heap
  /\ dt' = IF IsNumber(request.dt) THEN request.dt ELSE DefaultDt
  /\ steps' = request.steps
  /\ jitter' = IF IsNumber(request.jitter) THEN request.jitter ELSE DefaultJitter
  /\ trajectories' = <<>>
  /\ step' = 0
  /\ pc' = "loop"
  /\ UNCHANGED <<prog, request, forces, response, rng, prev, visited, sketchVars>>

\* One iteration of simulate's loop (lines 51-81).
SimStep ==
  /\ prog = "server" /\ pc = "loop" /\ step < steps
  /\ LET st == Deref(heap, state)
         pairs == PairSeq(Len(st))
         f == AccumulateFrom(st, pairs, 1, ZeroForces(st, forces))
         new == UpdateFrom(st, f, dt, jitter, 1, rng)
         heap1 == Write(heap, state, new)
     IN /\ forces' = f
        /\ heap' = heap1
        /\ trajectories' = Record(trajectories, st, Deref(heap1, state))
        /\ rng' = RngAfter(rng, 2 * Len(st))
        /\ prev' = st
        /\ visited' = pairs
  /\ step' = step + 1
  /\ UNCHANGED <<prog, request, bodies, state, dt, steps, jitter, pc, response,
                 sketchVars>>

\* The loop ends: return trajectories, and the handler answers 200 (lines 82,
\* 130-132).
SimReturn ==
  /\ prog = "server" /\ pc = "loop" /\ ~(step < steps)
  /\ response' = [status |-> 200, positions |-> Stringify(trajectories)]
  /\ pc' = "done"
  /\ UNCHANGED <<prog, request, heap, bodies, state, dt, steps, jitter, forces,
                 trajectories, step, rng, prev, visited, sketchVars>>

\* -------------------------------------------------------- quantum_sim.js
COULOMB_CONSTANT == 500
MIN_DIST_SQ == 25

\* new Particle(x, y, vx, vy, charge)
Particle(x, y, vx, vy, charge) ==
  [pos |-> Vec(Num(x), Num(y)), vel |-> Vec(Num(vx), Num(vy)),
   acc |-> ZeroVec, charge |-> Num(charge)]

\* this.acc.set(0, 0)
resetForce(p) == [p EXCEPT !.acc = ZeroVec]

\* this.acc.add(force)
applyForce(p, force) == [p EXCEPT !.acc = VAdd(p.acc, force)]

\* p5's constrain(n, low, high)
constrain(n, low, high) == NMax(NMin(n, high), low)

\* The bounce without the clamp (a variant of update)
updateNoClamp(p, h, w, ht) ==
  LET vel == VAdd(p.vel, VScale(p.acc, h))
      pos == VAdd(p.pos, VScale(vel, h))
      outx == NLt(pos.x, Zero) \/ NGt(pos.x, w)
      outy == NLt(pos.y, Zero) \/ NGt(pos.y, ht)
  IN [p EXCEPT !.vel = Vec(IF outx THEN NMul(vel.x, Num(-1)) ELSE vel.x,
                           IF outy THEN NMul(vel.y, Num(-1)) ELSE vel.y),
               !.pos = pos]

\* Particle.update(dt), with the canvas w by ht (lines 55-69)
update(p, h, w, ht) ==
  LET vel == VAdd(p.vel, VScale(p.acc, h))
      pos == VAdd(p.pos, VScale(vel, h))
      outx == NLt(pos.x, Zero) \/ NGt(pos.x, w)
      outy == NLt(pos.y, Zero) \/ NGt(pos.y, ht)
  IN [p EXCEPT !.vel = Vec(IF outx THEN NMul(vel.x, Num(-1)) ELSE vel.x,
                           IF outy THEN NMul(vel.y, Num(-1)) ELSE vel.y),
               !.pos = Vec(IF outx THEN constrain(pos.x, Zero, w) ELSE pos.x,
                           IF outy THEN constrain(pos.y, Zero, ht) ELSE pos.y)]

\* The force draw applies to p1, and negated to p2 (lines 121-129).
CoulombForce(p1, p2) ==
  LET direction == VSub(p2.pos, p1.pos)
      distSq == NMax(NAdd(NMul(direction.x, direction.x),
                          NMul(direction.y, direction.y)), Num(MIN_DIST_SQ))
      dist == NSqrt(distSq)
      forceDir == Vec(NDiv(direction.x, dist), NDiv(direction.y, dist))
      forceMag == NDiv(NMul(NMul(Num(COULOMB_CONSTANT), p1.charge), p2.charge),
                       distSq)
  IN VScale(forceDir, forceMag)

\* p1.applyForce(force * 1); p2.applyForce(force * -1)
ApplyCoulomb(ps, i, j, force) ==
  LET p1 == ps[i]
      p2 == ps[j]
  IN [ps EXCEPT ![i] = applyForce(p1, VScale(force, Num(1))),
                ![j] = applyForce(p2, VScale(force, Num(-1)))]

\* draw's pairwise loop over the particles ps, from pair k on.
RECURSIVE CoulombFrom(_, _, _)
CoulombFrom(ps, pairs, k) ==
  IF k > Len(pairs) THEN ps
  ELSE CoulombFrom(ApplyCoulomb(ps, pairs[k][1], pairs[k][2],
                                CoulombForce(ps[pairs[k][1]], ps[pairs[k][2]])),
                   pairs, k + 1)

\* for (let p of particles) p.resetForce()
ResetAll(ps) == AsSeq([i \in 1..Len(ps) |-> resetForce(ps[i])])

\* for (let p of particles) p.update(dt)
UpdateAll(ps, h, w, ht) == AsSeq([i \in 1..Len(ps) |-> update(ps[i], h, w, ht)])

\* i % 2 === 0 ? 1 : -1, for the index i from zero
SetupCharge(i) == IF i % 2 = 0 THEN 1 ELSE -1

\* What random(width), random(height) and random(-50, 50) return in setup:
\* two places at rest and one in motion, <<x, y, vx, vy>>.
Starts == { <<10, 50, 0, 0>>, <<50, 50, 0, 0>>, <<55, 20, 40, -30>> }
\* windowWidth by windowHeight: at setup, and after the window is resized
SetupCanvas == Vec(Num(100), Num(100))
CanvasSizes == { SetupCanvas, Vec(Num(60), Num(80)) }
\* deltaTime, in milliseconds
DeltaTimes == { 16, 1000 }

\* setup(): the canvas, and NUM_PARTICLES particles, here 1..MaxParticles.
setup ==
  /\ width = SetupCanvas.x /\ height = SetupCanvas.y
  /\ \E n \in 1..MaxParticles : \E ss \in [1..n -> Starts] :
       particles = AsSeq([i \in 1..n |->
          Particle(ss[i][1], ss[i][2], ss[i][3], ss[i][4], SetupCharge(i - 1))])
  /\ deltaTime = 0 /\ frameCount = 0 /\ op = "setup" /\ pre = <<>>

\* draw(): one frame (lines 104-157), deltaTime being what p5 measured.
draw ==
  /\ prog = "sketch" /\ frameCount < MaxFrames
  /\ \E ms \in DeltaTimes :
       LET h == NDiv(Num(ms), Num(1000))
           pairs == PairSeq(Len(particles))
           forced == CoulombFrom(ResetAll(particles), pairs, 1)
       IN /\ particles' = UpdateAll(forced, h, width, height)
          /\ deltaTime' = ms
          /\ visited' = pairs
  /\ pre' = particles
  /\ frameCount' = frameCount + 1
  /\ op' = "draw"
  /\ UNCHANGED <<prog, serverVars, width, height>>

\* windowResized(): the canvas takes the window's new size.  Resizes in a row
\* are one resize to the last size.
windowResized ==
  /\ prog = "sketch" /\ op # "resize"
  /\ \E c \in CanvasSizes :
       /\ <<c.x, c.y>> # <<width, height>>
       /\ width' = c.x /\ height' = c.y
  /\ op' = "resize"
  /\ UNCHANGED <<prog, serverVars, particles, deltaTime, frameCount, pre, visited>>

SketchIdle ==
  /\ particles = <<>> /\ width = Zero /\ height = Zero /\ deltaTime = 0
  /\ frameCount = 0 /\ op = "idle" /\ pre = <<>>

\* ------------------------------------------------------------ the system
Init ==
  /\ prog \in {"server", "sketch"}
  /\ IF prog = "server" THEN ServerInit /\ SketchIdle ELSE ServerIdle /\ setup
  /\ visited = <<>>

Next ==
  \/ ParseError
  \/ ParseAndCall
  \/ SimStep
  \/ SimReturn
  \/ draw
  \/ windowResized

Spec == Init /\ [][Next]_vars

\* ------------------------------------------------------------ the claims
\* The sum of the vectors f[1], ..., f[n]
RECURSIVE SumVecs(_, _)
SumVecs(f, n) == IF n = 0 THEN ZeroVec ELSE VAdd(SumVecs(f, n - 1), f[n])

\* The squared distance between the first two particles of ps
SepSq(ps) ==
  LET d == VSub(ps[2].pos, ps[1].pos)
  IN NAdd(NMul(d.x, d.x), NMul(d.y, d.y))

\* p is strictly inside the canvas
Interior(p) ==
  /\ NLt(Zero, p.pos.x) /\ NLt(p.pos.x, width)
  /\ NLt(Zero, p.pos.y) /\ NLt(p.pos.y, height)

\* v holds each pair (i, j), 1 <= i < j <= n, once, and nothing else
EachPairOnce(v, n) ==
  /\ \A i \in 1..n : \A j \in (i + 1)..n :
       Cardinality({k \in 1..Len(v) : v[k] = <<i, j>>}) = 1
  /\ \A k \in 1..Len(v) : 1 <= v[k][1] /\ v[k][1] < v[k][2] /\ v[k][2] <= n

\* The accelerations of the particles ps of the frame that `after` ends
Accs(after) == AsSeq([i \in 1..Len(after) |-> after[i].acc])

\* simulate has been called and has not failed
Called == prog = "server" /\ request.ok /\ pc \in {"loop", "done"}

\* C1 (as the spec states it): two particles at rest and away from the edges
\* are farther apart after the first frame when their charges have the same
\* sign, and closer when the signs differ.  The code violates it.
C1_LikeRepelOppositeAttract ==
  ( /\ prog = "sketch" /\ op = "draw" /\ frameCount = 1 /\ Len(pre) = 2
    /\ pre[1].vel = ZeroVec /\ pre[2].vel = ZeroVec
    /\ SepSq(pre) # Zero
    /\ \A i \in 1..2 : Interior(pre[i]) /\ Interior(particles[i]) )
  => IF pre[1].charge = pre[2].charge
     THEN NGt(SepSq(particles), SepSq(pre))
     ELSE NLt(SepSq(particles), SepSq(pre))

\* C2: simulate never mutates its input: once it is called, the caller's
\* array holds the objects it held, each with the mass, x, y, vx and vy of the
\* payload, and no object of the internal copy is one of the caller's.
C2_InputNotMutated ==
  Called =>
    /\ Len(bodies) = Len(request.bodies)
    /\ \A i \in 1..Len(bodies) : heap[bodies[i]] = request.bodies[i]
    /\ \A i \in 1..Len(state) : \A j \in 1..Len(bodies) : state[i] # bodies[j]

\* C2's case: simulate has returned after a step that moved the copy of the
\* first body, and the caller's first body is what it was.
C2_Witness ==
  /\ Called /\ pc = "done" /\ step >= 1 /\ Len(bodies) >= 1
  /\ heap[state[1]] # heap[bodies[1]]
  /\ heap[bodies[1]] = request.bodies[1]

\* C3: the trajectory holds one snapshot per step made (`steps` of them at
\* the return, none when steps = 0), each of N entries; the last snapshot is
\* the positions after the last step's update, in index order, and the one
\* before it is the positions that step started from.
C3_Trajectory ==
  Called =>
    /\ Len(trajectories) = step
    /\ pc = "done" =>
         /\ Len(trajectories) = request.steps
         /\ response.status = 200
         /\ Len(response.positions) = request.steps
    /\ \A k \in 1..Len(trajectories) : Len(trajectories[k]) = Len(request.bodies)
    /\ step >= 1 =>
         \A i \in 1..Len(state) :
           trajectories[step][i] = Vec(heap[state[i]].x, heap[state[i]].y)
    /\ step >= 2 =>
         \A i \in 1..Len(prev) :
           trajectories[step - 1][i] = Vec(prev[i].x, prev[i].y)

\* C3's case: simulate has returned two snapshots of two bodies, and the
\* second differs from the first.
C3_Witness ==
  /\ Called /\ pc = "done" /\ request.steps = 2 /\ Len(request.bodies) = 2
  /\ Len(trajectories) = 2 /\ trajectories[1] # trajectories[2]

\* C4 (as the spec states it): whatever the ceiling on len(bodies) * steps,
\* above it simulate fails before the loop: no step is made, no snapshot
\* recorded and no 200 answered.  The code, which has no ceiling, violates it.
C4_ResourceLimit ==
  \A limit \in 0..(MaxBodies * MaxSteps) :
    ( /\ prog = "server" /\ request.ok
      /\ Len(request.bodies) * request.steps > limit )
    => /\ step = 0
       /\ trajectories = <<>>
       /\ response.status # 200

\* C5 (as the spec states it): in both programs the pairwise loop visits each
\* pair i < j once, and the accumulated forces sum to the zero vector.  The
\* code violates it once a body of mass zero has made the positions NaN.
C5_PairwiseAccumulator ==
  /\ (prog = "server" /\ step >= 1) =>
       /\ EachPairOnce(visited, Len(state))
       /\ SumVecs(forces, Len(forces)) = ZeroVec
  /\ (prog = "sketch" /\ frameCount >= 1) =>
       /\ EachPairOnce(visited, Len(particles))
       /\ SumVecs(Accs(particles), Len(particles)) = ZeroVec

\* 0.01, 1e-8, and the gravity scenario: unit masses at rest at (0,0) and (10,0),
\* dt = 1, steps = 1, no jitter.
Hundredth == NDiv(Num(1), Num(100))
Tolerance == NDiv(Num(1), Num(10^8))
GravityScenario ==
  /\ Called /\ pc = "done"
  /\ request.bodies = <<Body(1, 0, 0, 0, 0), Body(1, 10, 0, 0, 0)>>
  /\ request.dt = Num(1) /\ request.steps = 1 /\ request.jitter = Undefined

AxisReflected(c, v, c2, v2, extent) ==
  IF NLt(c, Zero) \/ NGt(c, extent)
  THEN v2 = NNeg(v) /\ c2 = (IF NLt(c, Zero) THEN Zero ELSE extent)
  ELSE v2 = v /\ c2 = c

\* The velocity and the position the Euler step of the last frame computes
\* for particle i, before the bounce
EulerVel(i) ==
  VAdd(pre[i].vel, VScale(particles[i].acc, NDiv(Num(deltaTime), Num(1000))))
EulerPos(i) ==
  VAdd(pre[i].pos, VScale(EulerVel(i), NDiv(Num(deltaTime), Num(1000))))

\* C7: after a frame, on each axis of each particle: if the Euler step took
\* the coordinate out of [0, extent], the velocity component is the negated
\* one and the coordinate is the nearer end of the range; otherwise both are
\* as computed.  So every particle is in [0, width] x [0, height].
C7_ReflectAndClamp ==
  (prog = "sketch" /\ op = "draw") =>
    \A i \in 1..Len(particles) :
      LET p == particles[i]
      IN /\ AxisReflected(EulerPos(i).x, EulerVel(i).x, p.pos.x, p.vel.x, width)
         /\ AxisReflected(EulerPos(i).y, EulerVel(i).y, p.pos.y, p.vel.y, height)
         /\ NLe(Zero, p.pos.x) /\ NLe(p.pos.x, width)
         /\ NLe(Zero, p.pos.y) /\ NLe(p.pos.y, height)

\* C7's case: a frame has taken a particle beyond the right edge, and left
\* it on the edge moving left.
C7_Witness ==
  /\ prog = "sketch" /\ op = "draw"
  /\ \E i \in 1..Len(particles) :
       /\ NGt(EulerPos(i).x, width)
       /\ particles[i].pos.x = width
       /\ NLt(particles[i].vel.x, Zero)

\* Every coordinate of the trajectory traj is a finite number
AllFinite(traj) ==
  \A k \in 1..Len(traj) : \A i \in 1..Len(traj[k]) :
    traj[k][i].x.k = "fin" /\ traj[k][i].y.k = "fin"

\* C8 (as the spec states it): with a body of mass zero simulate fails: no
\* 200 is answered, and no trajectory with a NaN or an infinite position is
\* returned.  The code violates it.
C8_ZeroMassRejected ==
  (Called /\ pc = "done") =>
    /\ (\E i \in 1..Len(request.bodies) : IsZero(request.bodies[i].mass))
         => response.status # 200
    /\ AllFinite(trajectories)
    /\ AllFinite(response.positions)

\* C9 (as the spec states it): a single body, without jitter, has the
\* position and the velocity it started with after any number of steps, in
\* simulate and, frame by frame, in the sketch.  The code violates it.
C9_SingleBodyUnchanged ==
  /\ (Called /\ Len(state) = 1 /\ jitter = Zero) =>
       heap[state[1]] = request.bodies[1]
  /\ (prog = "sketch" /\ frameCount >= 1 /\ Len(particles) = 1) =>
       /\ particles[1].pos = pre[1].pos
       /\ particles[1].vel = pre[1].vel

\* C9 (amended): on a single body the accumulated force is zero in every
\* step of both programs.  In simulate, without jitter, a body of non-zero
\* mass keeps its velocity and moves by velocity * dt in a step.  In the
\* sketch the Euler step keeps the velocity and moves the particle by
\* velocity * dt, before the bounce at the canvas edges.
C9_SingleBodyInertial ==
  /\ (Called /\ Len(state) = 1 /\ step >= 1) =>
       LET b == heap[state[1]]
           p == prev[1]
       IN /\ forces = <<ZeroVec>>
          /\ (jitter = Zero /\ ~IsZero(b.mass)) =>
               /\ b.vx = p.vx /\ b.vy = p.vy
               /\ b.x = NAdd(p.x, NMul(p.vx, dt))
               /\ b.y = NAdd(p.y, NMul(p.vy, dt))
  /\ (prog = "sketch" /\ op = "draw" /\ Len(particles) = 1) =>
       /\ particles[1].acc = ZeroVec
       /\ EulerVel(1) = pre[1].vel
       /\ AxisReflected(NAdd(pre[1].pos.x, NMul(pre[1].vel.x, NDiv(Num(deltaTime), Num(1000)))),
                        pre[1].vel.x, particles[1].pos.x, particles[1].vel.x, width)
       /\ AxisReflected(NAdd(pre[1].pos.y, NMul(pre[1].vel.y, NDiv(Num(deltaTime), Num(1000)))),
                        pre[1].vel.y, particles[1].pos.y, particles[1].vel.y, height)

\* C9's case: a single moving body of non-zero mass has made two steps
\* without jitter and is no longer where it started.
C9_Witness ==
  /\ Called /\ Len(state) = 1 /\ step = 2 /\ jitter = Zero
  /\ ~IsZero(heap[state[1]].mass)
  /\ heap[state[1]].x # request.bodies[1].x

\* The particles ps with zero accelerations
Unforced(ps) == AsSeq([i \in 1..Len(ps) |-> [ps[i] EXCEPT !.acc = ZeroVec]])

\* C10: no step changes a body's mass and no frame or resize a particle's
\* charge, which stays the one setup gave; and the forces a step or a frame
\* leaves are those of its own pairs alone, accumulated from zero.
C10_Conservation ==
  /\ Called =>
       /\ Len(state) = Len(request.bodies)
       /\ \A i \in 1..Len(state) : heap[state[i]].mass = request.bodies[i].mass
  /\ (Called /\ step >= 1) =>
       forces = AccumulateFrom(prev, PairSeq(Len(prev)), 1, ZeroVecs(Len(prev)))
  /\ prog = "sketch" =>
       \A i \in 1..Len(particles) : particles[i].charge = Num(SetupCharge(i - 1))
  /\ (prog = "sketch" /\ frameCount >= 1) =>
       /\ Len(particles) = Len(pre)
       /\ \A i \in 1..Len(particles) : particles[i].charge = pre[i].charge
       /\ Accs(particles) =
            Accs(CoulombFrom(Unforced(pre), PairSeq(Len(pre)), 1))

\* C10's case: two bodies have made a second step, after a first one that
\* left a force on the first body and changed its velocity.
C10_Witness ==
  /\ Called /\ step = 2 /\ Len(state) = 2
  /\ forces[1] # ZeroVec
  /\ Vec(prev[1].vx, prev[1].vy) # Vec(request.bodies[1].vx, request.bodies[1].vy)
  /\ heap[state[1]].mass = request.bodies[1].mass
====
